---------------------------- MODULE Spec2Model ----------------------------
(***************************************************************************)
(* Model of claude_code_setup: the greeter example_function and the entry  *)
(* point main (core/main.py), the helpers sanitize_string and              *)
(* validate_input (utils/helpers.py), and the sanitize-then-greet caller   *)
(* of tests/integration/test_integration.py.                               *)
(*                                                                         *)
(* A text is a sequence of Unicode code points.  A Python object reference *)
(* is an index into Heap.  Every thread of the process owns one frame that *)
(* holds the parameters and locals of the call it runs; the only state     *)
(* that is not in a frame is the process's standard output and exit        *)
(* status, written by main alone.                                          *)
(***************************************************************************)
EXTENDS Integers, Sequences, FiniteSets, TLC

VARIABLES
    calls,      \* thread -> the call the thread was started with (caller's arguments)
    frames,     \* thread -> frame of the running call: pc, parameters, locals, results
    stdout,     \* the code points written to standard output so far
    exited,     \* TRUE once the process started through main has ended
    exitcode    \* its exit status

vars == <<calls, frames, stdout, exited, exitcode>>

---------------------------------------------------------------------------
(* Bounds of the model *)

MaxLen == 5         \* longest text given to sanitize_string
MaxPipeLen == 3     \* longest text given to the sanitize-then-greet caller
MaxNameLen == 2     \* longest name given to example_function
MaxCount == 3       \* counts given to example_function range over -MaxCount..MaxCount
NumThreads == 2     \* threads of the concurrent specification

---------------------------------------------------------------------------
(* Texts *)

\* Code points the inputs are built from: TAB, SPACE, '!', ',', '0', 'Z', 'a'
\* and U+00E9 (a letter outside ASCII).
Alphabet == {9, 32, 33, 44, 48, 90, 97, 233}

\* The texts of k code points.
Texts(k) == [1..k -> Alphabet]

\* "Hello, " and "!" of the f-string, "World" of main, " " of the join, and the
\* line end print writes.
HelloPrefix == <<72, 101, 108, 108, 111, 44, 32>>
Bang == <<33>>
World == <<87, 111, 114, 108, 100>>
JoinSep == <<32>>
Newline == <<10>>

\* str.isspace(), which is also the class \s of a str pattern and the set
\* str.strip() removes.
IsSpace(c) ==
    \/ c \in 9..13
    \/ c \in 28..32
    \/ c \in {133, 160, 5760, 8232, 8233, 8239, 8287, 12288}
    \/ c \in 8192..8202

\* The class [a-zA-Z0-9\s]; the pattern matches one code point outside it.
IsAllowedMutBang(c) ==
    \/ c \in 97..122
    \/ c \in 65..90
    \/ c \in 48..57
    \/ c = 33
    \/ IsSpace(c)

IsAllowedMutWord(c) ==
    \/ c \in 97..122
    \/ c \in 65..90
    \/ c \in 48..57
    \/ c >= 128
    \/ IsSpace(c)

IsAllowed(c) ==
    \/ c \in 97..122
    \/ c \in 65..90
    \/ c \in 48..57
    \/ IsSpace(c)

\* re.sub(r"[^a-zA-Z0-9\s]", "", value): every match is replaced by "".
re_sub(value) == SelectSeq(value, IsAllowed)

\* str.strip(): drop the whitespace before the first and after the last
\* code point that is not whitespace.
str_strip_MutCollapse(s) == SelectSeq(s, LAMBDA c : ~IsSpace(c))

str_strip_MutOnce(s) ==
    LET a == IF s # <<>> /\ IsSpace(Head(s)) THEN Tail(s) ELSE s
    IN  IF a # <<>> /\ IsSpace(a[Len(a)]) THEN SubSeq(a, 1, Len(a) - 1) ELSE a

str_strip(s) ==
    LET keep == {i \in 1..Len(s) : ~IsSpace(s[i])}
    IN  IF keep = {} THEN <<>>
        ELSE SubSeq(s, CHOOSE i \in keep : \A j \in keep : i <= j,
                       CHOOSE i \in keep : \A j \in keep : i >= j)

sanitize_string(value) == str_strip(re_sub(value))

---------------------------------------------------------------------------
(* The greeter *)

DefaultCountMut == 1 + 1

\* count: int = 1
DefaultCount == 1

\* f"Hello, {name}!"
fstring(name) == HelloPrefix \o name \o Bang

\* A Python int, as CPython keeps it: a sign and the magnitude in digits of
\* 30 bits, least significant first.  PyLong(n) is the int of a small n.
PyLong(n) ==
    [sign |-> IF n < 0 THEN -1 ELSE IF n = 0 THEN 0 ELSE 1,
     digits |-> IF n = 0 THEN <<>> ELSE <<IF n < 0 THEN -n ELSE n>>]

\* The number a Python int of at most one digit stands for.
IntValue(c) == IF c.digits = <<>> THEN 0 ELSE c.sign * c.digits[1]

\* -2**63, -2**63 - 1 and 2**63: the least index-sized integer and the two
\* integers next to the index range (2**63 is 8 * 2**60).
SsizeMin == [sign |-> -1, digits |-> <<0, 0, 8>>]
BelowSsizeMin == [sign |-> -1, digits |-> <<1, 0, 8>>]
AboveSsizeMax == [sign |-> 1, digits |-> <<0, 0, 8>>]

\* Whether an int fits the index type of a 64-bit build, -2**63 .. 2**63 - 1.
FitsIndex(c) ==
    \/ Len(c.digits) <= 2
    \/ /\ Len(c.digits) = 3
       /\ c.digits[3] < 8 \/ c = SsizeMin

\* What an expression evaluates to: a value, or the exception it raises.
Return(v) == [exc |-> "", val |-> v]
Raise(e) == [exc |-> e, val |-> <<>>]

\* [greeting] * count: the count is converted to the index type, which raises
\* OverflowError when it does not fit; a count below zero repeats zero
\* times.  (A positive count of two digits or more that fits asks for more
\* memory than the model bounds; the inputs hold none.)
list_repeat(x, c) ==
    IF ~FitsIndex(c) THEN Raise("OverflowError")
    ELSE IF c.sign <= 0 THEN Return(<<>>)
    ELSE Return([i \in 1..IntValue(c) |-> x])

\* sep.join(items)
RECURSIVE str_join_MutTrailing(_, _)
str_join_MutTrailing(sep, items) ==
    IF items = <<>> THEN <<>>
    ELSE Head(items) \o sep \o str_join_MutTrailing(sep, Tail(items))

RECURSIVE str_join(_, _)
str_join(sep, items) ==
    IF items = <<>> THEN <<>>
    ELSE IF Len(items) = 1 THEN Head(items)
    ELSE Head(items) \o sep \o str_join(sep, Tail(items))

example_function(name, count) ==
    LET items == list_repeat(fstring(name), count)
    IN  IF items.exc # "" THEN items ELSE Return(str_join(JoinSep, items.val))

---------------------------------------------------------------------------
(* Objects and the defaulter *)

\* The objects the callers of validate_input hold: None, 0, 42, "", "value",
\* [], [1, 2] and a second, distinct [].
Heap == <<
    [type |-> "NoneType", num |-> 0, items |-> <<>>],
    [type |-> "int", num |-> 0, items |-> <<>>],
    [type |-> "int", num |-> 42, items |-> <<>>],
    [type |-> "str", num |-> 0, items |-> <<>>],
    [type |-> "str", num |-> 0, items |-> <<118, 97, 108, 117, 101>>],
    [type |-> "list", num |-> 0, items |-> <<>>],
    [type |-> "list", num |-> 0, items |-> <<1, 2>>],
    [type |-> "list", num |-> 0, items |-> <<>>] >>

Refs == DOMAIN Heap

NoneRef == CHOOSE r \in Refs : Heap[r].type = "NoneType"

\* bool(obj)
Truthy(r) ==
    CASE Heap[r].type = "NoneType" -> FALSE
      [] Heap[r].type = "int" -> Heap[r].num # 0
      [] OTHER -> Heap[r].items # <<>>

validate_input_MutFalsy(value, default) == IF Truthy(value) THEN value ELSE default

\* value if value is not None else default
validate_input(value, default) == IF value # NoneRef THEN value ELSE default

---------------------------------------------------------------------------
(* Calls and frames *)

Call(fn, text, has_count, count, value, default) ==
    [fn |-> fn, text |-> text, has_count |-> has_count, count |-> count,
     value |-> value, default |-> default]

SanitizeCall(x) == Call("sanitize_string", x, FALSE, PyLong(0), NoneRef, NoneRef)
GreetCall(name, count) == Call("example_function", name, TRUE, count, NoneRef, NoneRef)
GreetDefaultCall(name) == Call("example_function", name, FALSE, PyLong(0), NoneRef, NoneRef)
ValidateCall(v, d) == Call("validate_input", <<>>, FALSE, PyLong(0), v, d)
PipelineCall(x) == Call("sanitized_greeting", x, FALSE, PyLong(0), NoneRef, NoneRef)
MainCall == Call("main", <<>>, FALSE, PyLong(0), NoneRef, NoneRef)

\* The counts given to example_function: the small ones and the three at the
\* edge of the index range.
Counts == {PyLong(n) : n \in (-MaxCount)..MaxCount} \cup {SsizeMin, BelowSsizeMin, AboveSsizeMax}

\* The calls the threads of the concurrent specification draw from:
\* " a!", "!,Z", "a" twice, "" with the count omitted, None with a default,
\* the int 0 with a default, "a!" through the pipeline, and main.
ConcCalls ==
    {SanitizeCall(<<32, 97, 33>>), SanitizeCall(<<33, 44, 90>>),
     GreetCall(<<97>>, PyLong(2)), GreetDefaultCall(<<>>),
     ValidateCall(NoneRef, 3), ValidateCall(2, 3),
     PipelineCall(<<97, 33>>), MainCall}

\* The frame of a call that has not run yet.  value is sanitize_string's
\* parameter, name and count are example_function's, obj and default are
\* validate_input's; sub and greeting are locals; sanitized, result and
\* returned are the values the functions return, exc the exception raised.
NewFrame(c) ==
    [fn |-> c.fn, pc |-> "call",
     value |-> IF c.fn \in {"sanitize_string", "sanitized_greeting"} THEN c.text ELSE <<>>,
     sub |-> <<>>, sanitized |-> <<>>,
     name |-> IF c.fn = "main" THEN World
              ELSE IF c.fn = "example_function" THEN c.text ELSE <<>>,
     count |-> PyLong(0), greeting |-> <<>>, result |-> <<>>, exc |-> "",
     obj |-> c.value, default |-> c.default, returned |-> NoneRef]

Threads == DOMAIN frames

---------------------------------------------------------------------------
(* Steps *)

\* sanitize_string, first half: re.sub(...)
ReSubStep(t) ==
    /\ frames[t].fn \in {"sanitize_string", "sanitized_greeting"}
    /\ frames[t].pc = "call"
    /\ frames' = [frames EXCEPT ![t].sub = re_sub(frames[t].value),
                                ![t].pc = "subbed"]
    /\ UNCHANGED <<calls, stdout, exited, exitcode>>

\* A strip that reads the substitution result from a buffer all threads share.
StripStepMutShared(t) ==
    /\ frames[t].pc = "subbed"
    /\ \E u \in Threads :
        /\ frames[u].fn \in {"sanitize_string", "sanitized_greeting"}
        /\ frames[u].pc # "call"
        /\ frames' = [frames EXCEPT
              ![t].sanitized = str_strip(frames[u].sub),
              ![t].pc = IF frames[t].fn = "sanitize_string" THEN "done" ELSE "cleaned"]
    /\ UNCHANGED <<calls, stdout, exited, exitcode>>

\* sanitize_string, second half: .strip() and return.  In the pipeline the
\* value returned is bound to clean_name.
StripStep(t) ==
    /\ frames[t].pc = "subbed"
    /\ frames' = [frames EXCEPT
          ![t].sanitized = str_strip(frames[t].sub),
          ![t].pc = IF frames[t].fn = "sanitize_string" THEN "done" ELSE "cleaned"]
    /\ UNCHANGED <<calls, stdout, exited, exitcode>>

\* example_function, entry and first statement: bind name and count (the
\* default when the caller omits it), then greeting = f"Hello, {name}!".
\* The pipeline passes clean_name and omits the count; main passes "World".
FormatStep(t) ==
    /\ \/ frames[t].fn \in {"example_function", "main"} /\ frames[t].pc = "call"
       \/ frames[t].fn = "sanitized_greeting" /\ frames[t].pc = "cleaned"
    /\ LET name == IF frames[t].fn = "sanitized_greeting"
                   THEN frames[t].sanitized ELSE frames[t].name
           count == IF calls[t].has_count THEN calls[t].count ELSE PyLong(DefaultCount)
       IN  frames' = [frames EXCEPT ![t].name = name,
                                    ![t].count = count,
                                    ![t].greeting = fstring(name),
                                    ![t].pc = "formatted"]
    /\ UNCHANGED <<calls, stdout, exited, exitcode>>

\* example_function, return " ".join([greeting] * count); an exception of
\* the repetition leaves the function.
JoinStep(t) ==
    /\ frames[t].pc = "formatted"
    /\ LET items == list_repeat(frames[t].greeting, frames[t].count)
       IN  IF items.exc # ""
           THEN frames' = [frames EXCEPT ![t].exc = items.exc, ![t].pc = "raised"]
           ELSE frames' = [frames EXCEPT
                   ![t].result = str_join(JoinSep, items.val),
                   ![t].pc = IF frames[t].fn = "main" THEN "print" ELSE "done"]
    /\ UNCHANGED <<calls, stdout, exited, exitcode>>

\* validate_input
ValidateStep(t) ==
    /\ frames[t].fn = "validate_input"
    /\ frames[t].pc = "call"
    /\ frames' = [frames EXCEPT
          ![t].returned = validate_input(frames[t].obj, frames[t].default),
          ![t].pc = "done"]
    /\ UNCHANGED <<calls, stdout, exited, exitcode>>

PrintStepMutSkip(t) ==
    /\ frames[t].fn = "main"
    /\ frames[t].pc = "print"
    /\ frames' = [frames EXCEPT ![t].pc = "return"]
    /\ UNCHANGED <<calls, stdout, exited, exitcode>>

\* main: print(...) writes the text and a line end
PrintStep(t) ==
    /\ frames[t].fn = "main"
    /\ frames[t].pc = "print"
    /\ stdout' = stdout \o frames[t].result \o Newline
    /\ frames' = [frames EXCEPT ![t].pc = "return"]
    /\ UNCHANGED <<calls, exited, exitcode>>

\* main returns and the script ends: exit status 0
MainReturn(t) ==
    /\ frames[t].fn = "main"
    /\ frames[t].pc = "return"
    /\ frames' = [frames EXCEPT ![t].pc = "done"]
    /\ exited' = TRUE
    /\ exitcode' = 0
    /\ UNCHANGED <<calls, stdout>>

Step(t) ==
    \/ ReSubStep(t)
    \/ StripStep(t)
    \/ FormatStep(t)
    \/ JoinStep(t)
    \/ ValidateStep(t)
    \/ PrintStep(t)
    \/ MainReturn(t)

---------------------------------------------------------------------------
(* Specifications *)

Start(cs) ==
    /\ calls = cs
    /\ frames = [t \in DOMAIN cs |-> NewFrame(cs[t])]
    /\ stdout = <<>>
    /\ exited = FALSE
    /\ exitcode = 0

\* One caller, one call: sanitize_string on a text of up to MaxLen code
\* points, example_function on a name of up to MaxNameLen with a count or
\* without, validate_input on two objects, the pipeline on a text of up to
\* MaxPipeLen, or main.
Init ==
    \/ \E k \in 0..MaxLen : \E x \in Texts(k) : Start(<<SanitizeCall(x)>>)
    \/ \E k \in 0..MaxNameLen : \E n \in Texts(k) :
          \/ \E c \in Counts : Start(<<GreetCall(n, c)>>)
          \/ Start(<<GreetDefaultCall(n)>>)
    \/ \E v \in Refs, d \in Refs : Start(<<ValidateCall(v, d)>>)
    \/ \E k \in 0..MaxPipeLen : \E x \in Texts(k) : Start(<<PipelineCall(x)>>)
    \/ Start(<<MainCall>>)

\* NumThreads threads, each running one call; main runs, if at all, on the
\* main thread.
ConcInit ==
    \E cs \in [1..NumThreads -> ConcCalls] :
        /\ \A t \in 2..NumThreads : cs[t].fn # "main"
        /\ Start(cs)

Next ==
    \/ \E t \in Threads : ReSubStep(t)
    \/ \E t \in Threads : StripStep(t)
    \/ \E t \in Threads : FormatStep(t)
    \/ \E t \in Threads : JoinStep(t)
    \/ \E t \in Threads : ValidateStep(t)
    \/ \E t \in Threads : PrintStep(t)
    \/ \E t \in Threads : MainReturn(t)

Spec == Init /\ [][Next]_vars

ConcSpec == ConcInit /\ [][Next]_vars

\* Every thread that can take a step eventually takes one.
FairSpec == ConcInit /\ [][Next]_vars /\ \A t \in 1..NumThreads : WF_vars(Step(t))

---------------------------------------------------------------------------
(* Vocabulary of the properties *)

IsAsciiLetter(c) == (c >= 65 /\ c <= 90) \/ (c >= 97 /\ c <= 122)
IsAsciiDigit(c) == c >= 48 /\ c <= 57
IsAlnum(c) == IsAsciiLetter(c) \/ IsAsciiDigit(c)

Count(c, s) == Cardinality({i \in 1..Len(s) : s[i] = c})

\* sanitize_string has returned in thread t (as the call itself, or inside
\* the pipeline).
SanitizeReturned(t) ==
    /\ frames[t].fn \in {"sanitize_string", "sanitized_greeting"}
    /\ frames[t].pc \notin {"call", "subbed"}

GreetReturned(t) == frames[t].fn = "example_function" /\ frames[t].pc = "done"

\* Only letters, digits and whitespace, and no whitespace at either end.
IsSanitized(s) ==
    /\ \A i \in 1..Len(s) : IsAlnum(s[i]) \/ IsSpace(s[i])
    /\ s = <<>> \/ (IsAlnum(s[1]) /\ IsAlnum(s[Len(s)]))

\* The reference sanitizer: delete, then trim from the left, then from the right.
RECURSIVE RefDelete(_)
RefDelete(s) ==
    IF s = <<>> THEN <<>>
    ELSE IF IsAlnum(Head(s)) \/ IsSpace(Head(s)) THEN <<Head(s)>> \o RefDelete(Tail(s))
    ELSE RefDelete(Tail(s))

RECURSIVE RefTrimLeft(_)
RefTrimLeft(s) ==
    IF s # <<>> /\ IsSpace(Head(s)) THEN RefTrimLeft(Tail(s)) ELSE s

RECURSIVE RefTrimRight(_)
RefTrimRight(s) ==
    IF s # <<>> /\ IsSpace(s[Len(s)]) THEN RefTrimRight(SubSeq(s, 1, Len(s) - 1)) ELSE s

RefSanitize(s) == RefTrimRight(RefTrimLeft(RefDelete(s)))

\* "Hello, " + name + "!"
Template(name) == <<72, 101, 108, 108, 111, 44, 32>> \o name \o <<33>>

\* n >= 1 copies of g with one space between consecutive copies.
RECURSIVE Copies(_, _)
Copies(g, n) == IF n <= 1 THEN g ELSE g \o <<32>> \o Copies(g, n - 1)

---------------------------------------------------------------------------
(* Properties *)

\* C1: whenever sanitize_string has returned, every character of its result is
\* an ASCII letter, an ASCII digit or whitespace, and the result is empty or
\* starts and ends with a letter or digit.
C1_SanitizedCharset ==
    \A t \in Threads : SanitizeReturned(t) => IsSanitized(frames[t].sanitized)

\* A call whose input starts with whitespace and holds a character to delete
\* has returned a non-empty result.
C1_Witness ==
    \E t \in Threads :
        /\ SanitizeReturned(t)
        /\ frames[t].value # <<>> /\ IsSpace(frames[t].value[1])
        /\ \E i \in 1..Len(frames[t].value) :
              ~(IsAlnum(frames[t].value[i]) \/ IsSpace(frames[t].value[i]))
        /\ frames[t].sanitized # <<>>

\* C2: sanitizing the result of sanitize_string again gives the same result,
\* and an input that is already sanitized is returned unchanged.
C2_Idempotent ==
    \A t \in Threads : SanitizeReturned(t) =>
        /\ sanitize_string(frames[t].sanitized) = frames[t].sanitized
        /\ IsSanitized(frames[t].value) => frames[t].sanitized = frames[t].value

\* A call has returned a result that differs from its input and still holds
\* whitespace.
C2_Witness ==
    \E t \in Threads :
        /\ SanitizeReturned(t)
        /\ frames[t].sanitized # frames[t].value
        /\ \E i \in 1..Len(frames[t].sanitized) : IsSpace(frames[t].sanitized[i])

\* C3: the result of sanitize_string is the reference result: the input with
\* every character that is no ASCII letter, ASCII digit or whitespace deleted,
\* then trimmed; runs of internal whitespace stay as they are.
C3_MatchesReference ==
    \A t \in Threads : SanitizeReturned(t) =>
        frames[t].sanitized = RefSanitize(frames[t].value)

\* A call has returned a result with two consecutive whitespace characters
\* between two letters or digits, from an input that held something to delete.
C3_Witness ==
    \E t \in Threads :
        /\ SanitizeReturned(t)
        /\ frames[t].fn = "sanitize_string"
        /\ Len(frames[t].sub) < Len(frames[t].value)
        /\ \E i \in 1..(Len(frames[t].sanitized) - 1) :
              IsSpace(frames[t].sanitized[i]) /\ IsSpace(frames[t].sanitized[i + 1])

C5_NonPositiveCount ==
    \A t \in Threads :
        frames[t].fn = "example_function" =>
            /\ frames[t].pc # "raised"
            /\ (calls[t].has_count /\ calls[t].count.sign <= 0 /\ frames[t].pc = "done") =>
                  frames[t].result = <<>>

\* C6: with a count of 1, given or omitted, example_function returns
\* "Hello, " + name + "!".
C6_SingleGreeting ==
    \A t \in Threads :
        (GreetReturned(t) /\ (calls[t].has_count => calls[t].count = PyLong(1))) =>
            frames[t].result = Template(calls[t].text)

\* A call with the empty name and the count omitted has returned.
C6_Witness ==
    \E t \in Threads :
        GreetReturned(t) /\ ~calls[t].has_count /\ calls[t].text = <<>>

\* C7: validate_input returns the value itself when the value is not None,
\* whatever the default and also when the value is falsy, and returns the
\* default when the value is None.
C7_DefaultOnlyForNone ==
    \A t \in Threads :
        (frames[t].fn = "validate_input" /\ frames[t].pc = "done") =>
            /\ calls[t].value # NoneRef => frames[t].returned = calls[t].value
            /\ calls[t].value = NoneRef => frames[t].returned = calls[t].default

\* A call with a falsy value that is not None, and another object as the
\* default, has returned.
C7_Witness ==
    \E t \in Threads :
        /\ frames[t].fn = "validate_input" /\ frames[t].pc = "done"
        /\ calls[t].value # NoneRef /\ ~Truthy(calls[t].value)
        /\ calls[t].default # calls[t].value /\ Truthy(calls[t].default)

\* C8: a process started through main ends, with exit status 0, and when it
\* has ended standard output holds the one line "Hello, World!".
C8_MainTerminates ==
    /\ <>(frames[1].fn = "main" => exited)
    /\ [](exited => /\ exitcode = 0
                    /\ stdout = <<72, 101, 108, 108, 111, 44, 32,
                                  87, 111, 114, 108, 100, 33, 10>>)

\* main has ended while another thread is still inside a call.
C8_Witness ==
    /\ exited
    /\ stdout # <<>>
    /\ \E t \in Threads : frames[t].fn # "main" /\ frames[t].pc \notin {"call", "done"}

\* C9: under every interleaving, each call's parameters still hold the
\* caller's arguments and each value returned is the one the call returns
\* when run alone.
C9_Isolated ==
    \A t \in Threads :
        LET f == frames[t]
            c == calls[t]
            n == IF c.has_count THEN c.count ELSE PyLong(1)
        IN  /\ f.fn \in {"sanitize_string", "sanitized_greeting"} => f.value = c.text
            /\ f.fn = "example_function" => f.name = c.text
            /\ f.fn = "validate_input" => f.obj = c.value /\ f.default = c.default
            /\ SanitizeReturned(t) => f.sanitized = sanitize_string(c.text)
            /\ GreetReturned(t) => Return(f.result) = example_function(c.text, n)
            /\ (f.fn = "sanitized_greeting" /\ f.pc = "done") =>
                  Return(f.result) = example_function(sanitize_string(c.text), PyLong(1))
            /\ (f.fn = "validate_input" /\ f.pc = "done") =>
                  f.returned = validate_input(c.value, c.default)

\* Two threads sanitize different texts; one has returned while the other is
\* between its two steps.
C9_Witness ==
    \E t, u \in Threads :
        /\ t # u
        /\ frames[t].fn = "sanitize_string" /\ frames[u].fn = "sanitize_string"
        /\ frames[t].value # frames[u].value
        /\ frames[t].pc = "done" /\ frames[u].pc = "subbed"

\* C10: the sanitize-then-greet pipeline returns "Hello, " + clean_name + "!",
\* which holds exactly one ',' (at index 5) and exactly one '!' (its last
\* character), and is what the pipeline returns for clean_name as well.
C10_Pipeline ==
    \A t \in Threads :
        (frames[t].fn = "sanitized_greeting" /\ frames[t].pc = "done") =>
            LET r == frames[t].result
                clean == frames[t].sanitized
            IN  /\ r = Template(clean)
                /\ Count(44, r) = 1 /\ r[6] = 44
                /\ Count(33, r) = 1 /\ r[Len(r)] = 33
                /\ example_function(sanitize_string(clean), PyLong(1)) = Return(r)

\* The pipeline has returned for an input that held both '!' and ','.
C10_Witness ==
    \E t \in Threads :
        /\ frames[t].fn = "sanitized_greeting" /\ frames[t].pc = "done"
        /\ Count(33, frames[t].value) > 0 /\ Count(44, frames[t].value) > 0
        /\ frames[t].sanitized # <<>>

=============================================================================
